---- MODULE Spec2Model ----
(***************************************************************************)
(* Model of scripts/remove_bg.py: the per-pixel dark-background removal    *)
(* remove_black_background and the command line loop of __main__.          *)
(*                                                                         *)
(* Spec   : one run of the script (arguments, disk, installed packages).   *)
(* SpecFn : remove_black_background as a function of an image and a        *)
(*          threshold, applied once and then again to its own output.      *)
(***************************************************************************)
EXTENDS Integers, Sequences, FiniteSets

\* ---------------------------------------------------------------- bounds
MaxArgs == 3
MaxPixels == 2

\* ------------------------------------------------------- program constants
\* def remove_black_background(input_path, output_path, threshold=50)
DefaultThreshold == 50

\* ---------------------------------------------------------------- state
VARIABLES
  args,      \* sys.argv[1:]
  fs,        \* the disk: path -> file content
  fs0,       \* the disk when the process started (history)
  pil,       \* whether "from PIL import Image" can succeed
  pc,        \* position of the interpreter in the script
  idx,       \* position of file_path in sys.argv[1:]
  img,       \* local img of remove_black_background
  inFile,    \* what Image.open decoded for the current call (history)
  datas,     \* local datas
  newData,   \* local newData
  err,       \* the exception e travelling to the except clause
  opened,    \* arguments whose input file is held open by an Image object
  out,       \* lines printed so far
  exitCode,  \* process exit status once pc = "exit"
  fnPc, fnIn, fnT, fnOut1, fnOut2   \* SpecFn: input, threshold, results

vars == <<args, fs, fs0, pil, pc, idx, img, inFile, datas, newData, err,
          opened, out, exitCode, fnPc, fnIn, fnT, fnOut1, fnOut2>>

cliVars == <<args, fs, fs0, pil, pc, idx, img, inFile, datas, newData, err,
             opened, out, exitCode>>

fnVars == <<fnPc, fnIn, fnT, fnOut1, fnOut2>>

locals == <<img, inFile, datas, newData>>

\* ------------------------------------------------------------ file contents
File(kind, fmt, mode, w, h, px) ==
  [kind |-> kind, fmt |-> fmt, mode |-> mode, w |-> w, h |-> h, px |-> px]

\* no file at the path
Absent == File("absent", "", "", 0, 0, <<>>)
\* a file (or directory) the imaging library cannot identify
Garbage == File("garbage", "", "", 0, 0, <<>>)
\* a file whose header parses but whose pixel data cannot be loaded
Truncated == File("truncated", "PNG", "RGBA", 1, 1, <<>>)
\* the value of img before it is assigned
NoImg == File("none", "", "", 0, 0, <<>>)

\* the 2x1 image of the end-to-end example
ExampleImg ==
  File("image", "PNG", "RGBA", 2, 1, << <<10, 10, 10, 255>>, <<200, 50, 50, 255>> >>)
\* a JPEG without alpha channel, one dark and one bright pixel
JpegImg ==
  File("image", "JPEG", "RGB", 1, 2, << <<49, 49, 49>>, <<49, 50, 49>> >>)

Paths == {"a.png", "b.jpg"}
FileContents == {Absent, Garbage, Truncated, ExampleImg, JpegImg}

\* channel values and thresholds SpecFn draws its inputs from
Levels == {49, 50}
Alphas == {0, 255}
Thresholds == {-1, 0, 49, 50, 51, 256}
Modes == {"RGBA", "RGB", "L"}

PixelsOf(mode) ==
  CASE mode = "RGBA" -> {<<r, g, b, a>> : r \in Levels, g \in Levels, b \in Levels, a \in Alphas}
    [] mode = "RGB" -> {<<r, g, b>> : r \in Levels, g \in Levels, b \in Levels}
    [] mode = "L" -> {<<l>> : l \in Levels}

Shapes == {s \in (1..MaxPixels) \X (1..MaxPixels) : s[1] * s[2] <= MaxPixels}

ImagesOf(mode) ==
  UNION {{File("image", IF mode = "RGBA" THEN "PNG" ELSE "JPEG", mode, s[1], s[2], p) :
            p \in [1..(s[1] * s[2]) -> PixelsOf(mode)]} : s \in Shapes}

AllImages == UNION {ImagesOf(m) : m \in Modes}

\* --------------------------------------------------------- imaging library
\* Image.open(path) followed by load: the decoded image
Decode(f) == File("image", f.fmt, f.mode, f.w, f.h, f.px)

\* one pixel of img.convert("RGBA")
ToRGBA(mode, p) ==
  CASE mode = "RGBA" -> p
    [] mode = "RGB" -> <<p[1], p[2], p[3], 255>>
    [] mode = "L" -> <<p[1], p[1], p[1], 255>>

\* img.convert("RGBA")
ConvertRGBA(im) ==
  File("image", im.fmt, "RGBA", im.w, im.h,
       [k \in 1..Len(im.px) |-> ToRGBA(im.mode, im.px[k])])

\* img.putdata(newData): pixel k of the list goes to position k of the image
PutData(im, data) ==
  File("image", im.fmt, im.mode, im.w, im.h,
       [k \in 1..Len(im.px) |-> IF k <= Len(data) THEN data[k] ELSE im.px[k]])

\* img.save(output_path, "PNG"): the file written
EncodePNG(im) == File("image", "PNG", im.mode, im.w, im.h, im.px)

\* ---------------------------------------------------------- the transform
\* variant: the comparisons written with <= instead of <
IsDark_Inclusive(item, threshold) ==
  item[1] <= threshold /\ item[2] <= threshold /\ item[3] <= threshold

\* if item[0] < threshold and item[1] < threshold and item[2] < threshold
IsDark(item, threshold) ==
  item[1] < threshold /\ item[2] < threshold /\ item[3] < threshold

\* variant: a dark pixel is blackened but keeps its alpha
NewItem_KeepAlpha(item, threshold) ==
  IF item[1] < threshold /\ item[2] < threshold /\ item[3] < threshold
  THEN <<0, 0, 0, item[4]>>
  ELSE item

\* the value appended to newData for item
NewItem(item, threshold) ==
  IF IsDark(item, threshold) THEN <<0, 0, 0, 0>> ELSE item

\* variant: newData.insert(0, ...) instead of newData.append(...)
RECURSIVE TransformData_Reversed(_, _)
TransformData_Reversed(data, threshold) ==
  IF data = <<>> THEN <<>>
  ELSE TransformData_Reversed(Tail(data), threshold)
         \o <<IF Head(data)[1] < threshold /\ Head(data)[2] < threshold
                   /\ Head(data)[3] < threshold
              THEN <<0, 0, 0, 0>> ELSE Head(data)>>

\* the for loop over datas, building newData
RECURSIVE TransformData(_, _)
TransformData(data, threshold) ==
  IF data = <<>> THEN <<>>
  ELSE <<NewItem(Head(data), threshold)>> \o TransformData(Tail(data), threshold)

\* the try block of remove_black_background when no step raises:
\* the content of output_path afterwards
remove_black_background(f, threshold) ==
  LET rgba == ConvertRGBA(Decode(f))
  IN EncodePNG(PutData(rgba, TransformData(rgba.px, threshold)))

\* ------------------------------------------------------------ printed lines
Line(msg, i, path, e) == [msg |-> msg, i |-> i, path |-> path, err |-> e]

file_path == args[idx]

\* --------------------------------------------------------------- Init
FnIdle ==
  /\ fnPc = "idle"
  /\ fnIn = NoImg
  /\ fnT = DefaultThreshold
  /\ fnOut1 = NoImg
  /\ fnOut2 = NoImg

CliIdle ==
  /\ args = <<>>
  /\ fs = [p \in Paths |-> Absent]
  /\ fs0 = fs
  /\ pil = "present"
  /\ pc = "idle"
  /\ idx = 0
  /\ img = NoImg
  /\ inFile = NoImg
  /\ datas = <<>>
  /\ newData = <<>>
  /\ err = ""
  /\ opened = {}
  /\ out = <<>>
  /\ exitCode = 0

Init ==
  /\ args \in UNION {[1..n -> Paths] : n \in 0..MaxArgs}
  /\ fs \in [Paths -> FileContents]
  /\ fs0 = fs
  /\ pil \in {"present", "absent"}
  /\ pc = "main"
  /\ idx = 0
  /\ img = NoImg
  /\ inFile = NoImg
  /\ datas = <<>>
  /\ newData = <<>>
  /\ err = ""
  /\ opened = {}
  /\ out = <<>>
  /\ exitCode = 0
  /\ FnIdle

\* ------------------------------------------------------------ __main__
\* variant: the usage message is printed but sys.exit(1) is missing
Usage_NoExit ==
  /\ pc = "main"
  /\ Len(args) = 0
  /\ out' = Append(out, Line("Usage", 0, "", ""))
  /\ idx' = 1
  /\ pc' = "for"
  /\ UNCHANGED <<args, fs, fs0, pil, locals, err, opened, exitCode, fnVars>>

\* if len(sys.argv) < 2: print usage; sys.exit(1)
Usage ==
  /\ pc = "main"
  /\ Len(args) = 0
  /\ out' = Append(out, Line("Usage", 0, "", ""))
  /\ exitCode' = 1
  /\ pc' = "exit"
  /\ UNCHANGED <<args, fs, fs0, pil, idx, locals, err, opened, fnVars>>

\* otherwise the for loop starts with the first argument
EnterLoop ==
  /\ pc = "main"
  /\ Len(args) >= 1
  /\ idx' = 1
  /\ pc' = "for"
  /\ UNCHANGED <<args, fs, fs0, pil, locals, err, opened, out, exitCode, fnVars>>

\* if os.path.exists(file_path): remove_black_background(file_path, file_path)
CallConvert ==
  /\ pc = "for"
  /\ idx <= Len(args)
  /\ fs[file_path].kind # "absent"
  /\ pc' = "import"
  /\ UNCHANGED <<args, fs, fs0, pil, idx, locals, err, opened, out, exitCode, fnVars>>

\* else: print(f"File not found: {file_path}")
NotFound ==
  /\ pc = "for"
  /\ idx <= Len(args)
  /\ fs[file_path].kind = "absent"
  /\ out' = Append(out, Line("File not found", idx, file_path, ""))
  /\ idx' = idx + 1
  /\ UNCHANGED <<args, fs, fs0, pil, pc, locals, err, opened, exitCode, fnVars>>

\* variant: the script ends with status 1 when some file was not converted
EndOfArgs_FailStatus ==
  /\ pc = "for"
  /\ idx > Len(args)
  /\ exitCode' = IF \E n \in DOMAIN out :
                      out[n].msg \in {"File not found", "Failed to process"}
                 THEN 1 ELSE 0
  /\ pc' = "exit"
  /\ UNCHANGED <<args, fs, fs0, pil, idx, locals, err, opened, out, fnVars>>

\* the for loop is exhausted: the script ends, exit status 0
EndOfArgs ==
  /\ pc = "for"
  /\ idx > Len(args)
  /\ exitCode' = 0
  /\ pc' = "exit"
  /\ UNCHANGED <<args, fs, fs0, pil, idx, locals, err, opened, out, fnVars>>

\* ------------------------------------------- remove_black_background
\* try: from PIL import Image
ImportOk ==
  /\ pc = "import"
  /\ pil = "present"
  /\ pc' = "processing"
  /\ UNCHANGED <<args, fs, fs0, pil, idx, locals, err, opened, out, exitCode, fnVars>>

\* except ImportError: print("PIL/Pillow not installed. Installing...")
ImportError ==
  /\ pc = "import"
  /\ pil = "absent"
  /\ out' = Append(out, Line("Installing", idx, "", ""))
  /\ pc' = "install"
  /\ UNCHANGED <<args, fs, fs0, pil, idx, locals, err, opened, exitCode, fnVars>>

\* subprocess.check_call([... "pip", "install", "Pillow"]); from PIL import Image
InstallOk ==
  /\ pc = "install"
  /\ pil' = "present"
  /\ pc' = "processing"
  /\ UNCHANGED <<args, fs, fs0, idx, locals, err, opened, out, exitCode, fnVars>>

\* check_call raises CalledProcessError (or the second import raises): the
\* exception is raised outside the try block, nothing catches it, the
\* interpreter prints the traceback and exits with status 1
InstallFail ==
  /\ pc = "install"
  /\ out' = Append(out, Line("Traceback", idx, "", "bootstrap"))
  /\ exitCode' = 1
  /\ pc' = "exit"
  /\ UNCHANGED <<args, fs, fs0, pil, idx, locals, err, opened, fnVars>>

\* print(f"Processing {input_path}...")
Processing ==
  /\ pc = "processing"
  /\ out' = Append(out, Line("Processing", idx, file_path, ""))
  /\ pc' = "open"
  /\ UNCHANGED <<args, fs, fs0, pil, idx, locals, err, opened, exitCode, fnVars>>

\* img = Image.open(input_path): the header is read, the file stays open
OpenOk ==
  /\ pc = "open"
  /\ fs[file_path].kind \in {"image", "truncated"}
  /\ img' = fs[file_path]
  /\ inFile' = fs[file_path]
  /\ opened' = opened \cup {idx}
  /\ pc' = "convert"
  /\ UNCHANGED <<args, fs, fs0, pil, idx, datas, newData, err, out, exitCode, fnVars>>

\* Image.open raises (unidentified image, unreadable file, directory)
OpenFail ==
  /\ pc = "open"
  /\ fs[file_path].kind \notin {"image", "truncated"}
  /\ err' = "decode"
  /\ pc' = "except"
  /\ UNCHANGED <<args, fs, fs0, pil, idx, locals, opened, out, exitCode, fnVars>>

\* img = img.convert("RGBA"): the pixel data is loaded, the file is closed
ConvertOk ==
  /\ pc = "convert"
  /\ img.kind = "image"
  /\ img' = ConvertRGBA(Decode(img))
  /\ opened' = opened \ {idx}
  /\ pc' = "getdata"
  /\ UNCHANGED <<args, fs, fs0, pil, idx, inFile, datas, newData, err, out, exitCode, fnVars>>

\* loading the pixel data raises
ConvertFail ==
  /\ pc = "convert"
  /\ img.kind # "image"
  /\ err' = "decode"
  /\ pc' = "except"
  /\ UNCHANGED <<args, fs, fs0, pil, idx, locals, opened, out, exitCode, fnVars>>

\* datas = img.getdata(); newData = []
GetData ==
  /\ pc = "getdata"
  /\ datas' = img.px
  /\ newData' = <<>>
  /\ pc' = "loop"
  /\ UNCHANGED <<args, fs, fs0, pil, idx, img, inFile, err, opened, out, exitCode, fnVars>>

\* variant: newData.insert(0, ...) instead of newData.append(...)
LoopStep_Prepend ==
  /\ pc = "loop"
  /\ Len(newData) < Len(datas)
  /\ newData' = <<NewItem(datas[Len(newData) + 1], DefaultThreshold)>> \o newData
  /\ UNCHANGED <<args, fs, fs0, pil, pc, idx, img, inFile, datas, err, opened, out, exitCode, fnVars>>

\* variant: putdata and save indented into the loop body
LoopStep_SaveInLoop ==
  /\ pc = "loop"
  /\ Len(newData) < Len(datas)
  /\ newData' = Append(newData, NewItem(datas[Len(newData) + 1], DefaultThreshold))
  /\ fs' = [fs EXCEPT ![file_path] = EncodePNG(PutData(img, newData'))]
  /\ UNCHANGED <<args, fs0, pil, pc, idx, img, inFile, datas, err, opened, out, exitCode, fnVars>>

\* one iteration of: for item in datas
LoopStep ==
  /\ pc = "loop"
  /\ Len(newData) < Len(datas)
  /\ newData' = Append(newData, NewItem(datas[Len(newData) + 1], DefaultThreshold))
  /\ UNCHANGED <<args, fs, fs0, pil, pc, idx, img, inFile, datas, err, opened, out, exitCode, fnVars>>

\* an iteration raises (MemoryError while the list grows)
LoopFail ==
  /\ pc = "loop"
  /\ Len(newData) < Len(datas)
  /\ err' = "transform"
  /\ pc' = "except"
  /\ UNCHANGED <<args, fs, fs0, pil, idx, locals, opened, out, exitCode, fnVars>>

\* the loop is exhausted; img.putdata(newData)
PutDataStep ==
  /\ pc = "loop"
  /\ Len(newData) = Len(datas)
  /\ img' = PutData(img, newData)
  /\ pc' = "save"
  /\ UNCHANGED <<args, fs, fs0, pil, idx, inFile, datas, newData, err, opened, out, exitCode, fnVars>>

\* img.save(output_path, "PNG") with output_path = input_path
SaveOk ==
  /\ pc = "save"
  /\ fs' = [fs EXCEPT ![file_path] = EncodePNG(img)]
  /\ pc' = "saved"
  /\ UNCHANGED <<args, fs0, pil, idx, locals, err, opened, out, exitCode, fnVars>>

\* variant: a write that broke off is not noticed
SaveFail_Swallowed ==
  /\ pc = "save"
  /\ fs' = [fs EXCEPT ![file_path] = Garbage]
  /\ pc' = "saved"
  /\ UNCHANGED <<args, fs0, pil, idx, locals, err, opened, out, exitCode, fnVars>>

\* img.save raises: either the file could not be opened for writing (disk
\* untouched) or the write broke off (a partial file is left behind)
SaveFail ==
  /\ pc = "save"
  /\ \/ fs' = fs
     \/ fs' = [fs EXCEPT ![file_path] = Garbage]
  /\ err' = "encode"
  /\ pc' = "except"
  /\ UNCHANGED <<args, fs0, pil, idx, locals, opened, out, exitCode, fnVars>>

\* print(f"Saved to {output_path}")
Saved ==
  /\ pc = "saved"
  /\ out' = Append(out, Line("Saved to", idx, file_path, ""))
  /\ pc' = "return"
  /\ UNCHANGED <<args, fs, fs0, pil, idx, locals, err, opened, exitCode, fnVars>>

\* variant: the handler prints the message and re-raises
Except_Reraise ==
  /\ pc = "except"
  /\ out' = Append(out, Line("Failed to process", idx, file_path, err))
  /\ exitCode' = 1
  /\ pc' = "exit"
  /\ UNCHANGED <<args, fs, fs0, pil, idx, locals, err, opened, fnVars>>

\* except Exception as e: print(f"Failed to process {input_path}: {e}")
Except ==
  /\ pc = "except"
  /\ out' = Append(out, Line("Failed to process", idx, file_path, err))
  /\ err' = ""
  /\ pc' = "return"
  /\ UNCHANGED <<args, fs, fs0, pil, idx, locals, opened, exitCode, fnVars>>

\* variant: img is a global, the file it holds stays open after the call
Return_KeepsOpen ==
  /\ pc = "return"
  /\ datas' = <<>>
  /\ newData' = <<>>
  /\ idx' = idx + 1
  /\ pc' = "for"
  /\ UNCHANGED <<args, fs, fs0, pil, img, inFile, opened, err, out, exitCode, fnVars>>

\* the function returns: its locals (and the file an Image still holds) are
\* released, and the for loop takes the next argument
Return ==
  /\ pc = "return"
  /\ img' = NoImg
  /\ inFile' = NoImg
  /\ datas' = <<>>
  /\ newData' = <<>>
  /\ opened' = opened \ {idx}
  /\ idx' = idx + 1
  /\ pc' = "for"
  /\ UNCHANGED <<args, fs, fs0, pil, err, out, exitCode, fnVars>>

Next ==
  \/ Usage
  \/ EnterLoop
  \/ CallConvert
  \/ NotFound
  \/ EndOfArgs
  \/ ImportOk
  \/ ImportError
  \/ InstallOk
  \/ InstallFail
  \/ Processing
  \/ OpenOk
  \/ OpenFail
  \/ ConvertOk
  \/ ConvertFail
  \/ GetData
  \/ LoopStep
  \/ LoopFail
  \/ PutDataStep
  \/ SaveOk
  \/ SaveFail
  \/ Saved
  \/ Except
  \/ Return

Spec == Init /\ [][Next]_vars

\* --------------------------------------------- the function on its own
InitFn ==
  /\ CliIdle
  /\ fnPc = "start"
  /\ fnIn \in AllImages
  /\ fnT \in Thresholds
  /\ fnOut1 = NoImg
  /\ fnOut2 = NoImg

\* remove_black_background(path, path, threshold) on the input image
FnFirst ==
  /\ fnPc = "start"
  /\ fnOut1' = remove_black_background(fnIn, fnT)
  /\ fnPc' = "once"
  /\ UNCHANGED <<cliVars, fnIn, fnT, fnOut2>>

\* the same call again, on the file the first call wrote
FnSecond ==
  /\ fnPc = "once"
  /\ fnOut2' = remove_black_background(fnOut1, fnT)
  /\ fnPc' = "twice"
  /\ UNCHANGED <<cliVars, fnIn, fnT, fnOut1>>

NextFn ==
  \/ FnFirst
  \/ FnSecond

SpecFn == InitFn /\ [][NextFn]_vars

\* ======================================================================
\* Properties
\* ======================================================================
Transparent == <<0, 0, 0, 0>>

\* the RGBA-converted input of the function under SpecFn
fnRGBA == ConvertRGBA(Decode(fnIn)).px

\* positions of the lines printed for argument i
LinesOf(msg, i) == {n \in DOMAIN out : out[n].msg = msg /\ out[n].i = i}
NumLines(msg, i) == Cardinality(LinesOf(msg, i))
ArgIdx == 1..Len(args)
ArgPaths == {args[i] : i \in ArgIdx}
Terminated == pc = "exit"
BootstrapRaised == \E n \in DOMAIN out : out[n].msg = "Traceback"

\* C1: every pixel of the RGBA-converted input whose red, green and blue are
\* all strictly below the threshold is (0,0,0,0) at the same position of the
\* output, whatever its alpha and whatever the (integer) threshold.
C1_DarkBecomesTransparent ==
  fnPc \in {"once", "twice"} =>
    /\ Len(fnOut1.px) = Len(fnRGBA)
    /\ \A k \in 1..Len(fnRGBA) :
         (fnRGBA[k][1] < fnT /\ fnRGBA[k][2] < fnT /\ fnRGBA[k][3] < fnT)
           => fnOut1.px[k] = Transparent

C1_Witness ==
  /\ fnPc = "once"
  /\ \E k \in 1..Len(fnRGBA) :
       /\ fnRGBA[k][1] < fnT /\ fnRGBA[k][2] < fnT /\ fnRGBA[k][3] < fnT
       /\ fnRGBA[k][4] = 255
       /\ fnOut1.px[k] = Transparent

\* C2: every pixel with at least one of red, green, blue greater than or
\* equal to the threshold (equal counts as not dark) is identical, alpha
\* included, in the output; and the 2x1 example with threshold 50 becomes
\* [(0,0,0,0), (200,50,50,255)].
C2_BrightKept ==
  /\ fnPc \in {"once", "twice"} =>
       \A k \in 1..Len(fnRGBA) :
         (fnRGBA[k][1] >= fnT \/ fnRGBA[k][2] >= fnT \/ fnRGBA[k][3] >= fnT)
           => fnOut1.px[k] = fnRGBA[k]
  /\ remove_black_background(ExampleImg, 50).px
       = << Transparent, <<200, 50, 50, 255>> >>

C2_Witness ==
  /\ fnPc = "once"
  /\ fnT = 50
  /\ \E k \in 1..Len(fnRGBA) :
       /\ fnRGBA[k][1] = 50 /\ fnRGBA[k][2] < fnT /\ fnRGBA[k][3] < fnT
       /\ fnRGBA[k][4] = 0
       /\ fnOut1.px[k] = fnRGBA[k]

\* C3: the file written by a successful conversion has the width, height and
\* pixel count of the decoded input, and the pixel at each position is the
\* input pixel of that position (RGBA-converted) or its transparent
\* replacement; while the loop runs newData holds exactly the pixels visited
\* so far, in order.
C3_SameShapeAndOrder ==
  /\ pc = "loop" =>
       /\ Len(newData) <= Len(datas)
       /\ \A k \in 1..Len(newData) : newData[k] \in {Transparent, datas[k]}
  /\ pc = "saved" =>
       LET o == fs[file_path]
       IN /\ o.kind = "image"
          /\ o.w = inFile.w
          /\ o.h = inFile.h
          /\ Len(o.px) = Len(inFile.px)
          /\ Len(o.px) = o.w * o.h
          /\ \A k \in 1..Len(o.px) :
               o.px[k] \in {Transparent, ToRGBA(inFile.mode, inFile.px[k])}

C3_Witness ==
  /\ pc = "saved"
  /\ inFile = ExampleImg
  /\ fs[file_path].w = 2
  /\ fs[file_path].h = 1
  /\ fs[file_path].px = << Transparent, <<200, 50, 50, 255>> >>

\* C4: converting the output of a conversion again with the same threshold
\* gives that output back, pixel for pixel.
C4_Idempotent ==
  fnPc = "twice" => fnOut2 = fnOut1

C4_Witness ==
  /\ fnPc = "twice"
  /\ Len(fnIn.px) = 2
  /\ fnOut1.px[1] = Transparent
  /\ fnOut1.px[2] # Transparent
  /\ fnOut1.px # fnRGBA
  /\ fnOut2 = fnOut1

\* C5: with no file argument the run prints the usage message and exits with
\* status 1, without entering the loop, checking or opening any file, or
\* changing the disk.
C5_UsageExit ==
  Len(args) = 0 =>
    /\ pc \in {"main", "exit"}
    /\ idx = 0
    /\ opened = {}
    /\ fs = fs0
    /\ Terminated => (exitCode = 1 /\ out = <<Line("Usage", 0, "", "")>>)

C5_Witness ==
  /\ Len(args) = 0
  /\ Terminated
  /\ exitCode = 1
  /\ out = <<Line("Usage", 0, "", "")>>

C7_ExitAlwaysZero ==
  (Terminated /\ Len(args) >= 1) => exitCode = 0

\* C7 amended: with one or more arguments the exit code is 0 whatever happens
\* to the individual files, unless the dependency bootstrap raises; then the
\* run ends with the uncaught exception and exit code 1.
C7_ExitZeroUnlessBootstrap ==
  (Terminated /\ Len(args) >= 1) =>
    /\ exitCode \in {0, 1}
    /\ exitCode = 0 <=> ~BootstrapRaised
    /\ BootstrapRaised => out[Len(out)] = Line("Traceback", idx, "", "bootstrap")

C7_Witness ==
  /\ Terminated
  /\ exitCode = 0
  /\ \E n \in DOMAIN out : out[n].msg = "File not found"
  /\ \E n \in DOMAIN out : out[n].msg = "Failed to process" /\ out[n].err = "encode"
  /\ \E p \in Paths : fs[p] = Garbage /\ fs0[p].kind = "image"

\* C8: arguments are handled one at a time in order: every printed line
\* belongs to the current argument or an earlier one, lines appear in
\* argument order, every earlier argument already has its final report, and
\* at most one input file, that of the current argument, is open.
C8_OneAtATime ==
  /\ \A n \in DOMAIN out : out[n].i <= idx
  /\ \A m, n \in DOMAIN out : m < n => out[m].i <= out[n].i
  /\ \A j \in ArgIdx :
       j < idx =>
         NumLines("File not found", j) + NumLines("Saved to", j)
           + NumLines("Failed to process", j) = 1
  /\ Cardinality(opened) <= 1
  /\ opened \subseteq {idx}
  /\ pc \in {"main", "for", "exit"} => (opened = {} /\ img = NoImg)

C8_Witness ==
  /\ pc = "convert"
  /\ idx = 2
  /\ opened = {2}
  /\ fs[args[1]] = Truncated
  /\ \E n \in DOMAIN out :
       out[n] = Line("Failed to process", 1, args[1], "decode")

====
